---- MODULE Spec2Model ----
(***************************************************************************)
(* A model of the turtle (TurtleBase) and of the L-system interpreter      *)
(* (LTurtle) of "L-System using turtle graphics/l_system.hpp".             *)
(*                                                                         *)
(* Numbers.  The program computes in float.  The model computes in exact   *)
(* rational arithmetic: a number is a reduced fraction <<n, d>>, d > 0, a  *)
(* vector is a triple of fractions, an angle is the pair of its cosine and *)
(* sine.  All configurations use angles whose cosine and sine are rational *)
(* (a quarter turn, and the angle of the 3-4-5 triangle), so every value   *)
(* the program computes is represented exactly; float rounding is not      *)
(* modelled.                                                               *)
(***************************************************************************)
EXTENDS Integers, Sequences, FiniteSets, TLC

VARIABLES
    cfg,            \* LTurtle::cfg (Config), fixed at construction
    rules,          \* LTurtle::rules, fixed at construction
    currentState,   \* TurtleBase::currentState
    turtleStack,    \* TurtleBase::turtleStack, top is the last element
    branches,       \* the caller's std::vector<Branch>
    leaves,         \* the caller's std::vector<Leaf>
    callStack,      \* active calls of LTurtle::run, innermost last
    axiom,          \* history: the sentence of the last run(axiom, 0)
    trace,          \* history: the symbols the last run passed to process,
                    \*   each with the turtle and its stack before the call
    lastOp,         \* history: the last operation executed, [op, arg]
    prev,           \* history: the turtle, stack and collections before it
    atStart,        \* history: the same, when the last run(axiom, 0) began
    steps,          \* history: the steps the last run(axiom, 0) has taken
    calls,          \* history: number of calls made by the caller
    sentences       \* history: the sentences of the runs, in call order

vars == <<cfg, rules, currentState, turtleStack, branches, leaves, callStack,
          axiom, trace, lastOp, prev, atStart, steps, calls, sentences>>

-----------------------------------------------------------------------------
(* Bounds of the model. *)

MaxDepth == 3
MaxRuns == 2
MaxCalls == 3
DenBound == 5

-----------------------------------------------------------------------------
(* Exact arithmetic standing for the program's float arithmetic. *)

Abs(n) == IF n < 0 THEN -n ELSE n

RECURSIVE GCD(_, _)
GCD(a, b) == IF b = 0 THEN a ELSE GCD(b, a % b)

Rat(n, d) ==
    LET g == GCD(Abs(n), Abs(d))
        s == IF d < 0 THEN -1 ELSE 1
    IN  <<(s * n) \div g, (s * d) \div g>>

Int2Rat(n) == <<n, 1>>
Zero == Int2Rat(0)
One == Int2Rat(1)

RNeg(a) == <<-a[1], a[2]>>

RAdd(a, b) ==
    LET g == GCD(a[2], b[2])
    IN  Rat(a[1] * (b[2] \div g) + b[1] * (a[2] \div g), (a[2] \div g) * b[2])

RSub(a, b) == RAdd(a, RNeg(b))

RMul(a, b) ==
    LET g1 == GCD(Abs(a[1]), b[2])
        g2 == GCD(Abs(b[1]), a[2])
    IN  <<(a[1] \div g1) * (b[1] \div g2), (a[2] \div g2) * (b[2] \div g1)>>

RPos(a) == a[1] > 0

RECURSIVE SqrtBetween(_, _, _)
SqrtBetween(n, lo, hi) ==
    IF lo >= hi THEN lo
    ELSE LET mid == (lo + hi + 1) \div 2
         IN  IF mid * mid <= n THEN SqrtBetween(n, mid, hi)
             ELSE SqrtBetween(n, lo, mid - 1)

ISqrt(n) == SqrtBetween(n, 0, IF n < 46340 THEN n ELSE 46340)

IsSquare(n) == n >= 0 /\ ISqrt(n) * ISqrt(n) = n

(* glm::vec3 *)
Vec3(x, y, z) == <<x, y, z>>
IVec3(x, y, z) == <<Int2Rat(x), Int2Rat(y), Int2Rat(z)>>

VAdd(u, v) == <<RAdd(u[1], v[1]), RAdd(u[2], v[2]), RAdd(u[3], v[3])>>
Scale(r, v) == <<RMul(r, v[1]), RMul(r, v[2]), RMul(r, v[3])>>
Dot(u, v) == RAdd(RAdd(RMul(u[1], v[1]), RMul(u[2], v[2])), RMul(u[3], v[3]))

(* glm::cross *)
Cross(u, v) ==
    <<RSub(RMul(u[2], v[3]), RMul(v[2], u[3])),
      RSub(RMul(u[3], v[1]), RMul(v[3], u[1])),
      RSub(RMul(u[1], v[2]), RMul(v[1], u[2]))>>

(* Whether the length of v is a positive rational. *)
HasRationalNorm(v) ==
    LET n2 == Dot(v, v) IN n2[1] > 0 /\ IsSquare(n2[1]) /\ IsSquare(n2[2])

(* glm::normalize: v * inversesqrt(dot(v, v)).  The vectors the program    *)
(* normalizes are the vectors of its frame, rotated, and cross products of *)
(* them: all of length 1 in exact arithmetic (C7_Orthonormal).  A vector   *)
(* whose length is not a positive rational has no normalized value in this *)
(* arithmetic and is returned as it is.                                    *)
Normalize(v) ==
    LET n2 == Dot(v, v)
    IN  IF HasRationalNorm(v)
        THEN Scale(<<ISqrt(n2[2]), ISqrt(n2[1])>>, v)
        ELSE v

(* An angle, given by its cosine and sine; -angle. *)
Angle(c, s) == [cos |-> c, sin |-> s]
NegAngle(a) == [cos |-> a.cos, sin |-> RNeg(a.sin)]
QuarterTurn == Angle(Zero, One)
Angle345 == Angle(Rat(3, 5), Rat(4, 5))

(* glm::toMat3(glm::angleAxis(angle, axis)), as its three rows.  With the   *)
(* quaternion q = (cos(a/2), sin(a/2) * axis), glm's mat3_cast has the      *)
(* entries 1 - 2(qyy + qzz), 2(qxy - qwz), ...; in them 2*q_i*q_j =         *)
(* (1 - cos a) * axis_i * axis_j and 2*q_w*q_i = (sin a) * axis_i.          *)
RotationMatrix(a, axis) ==
    LET k == RSub(One, a.cos)
        xx == RMul(k, RMul(axis[1], axis[1]))
        yy == RMul(k, RMul(axis[2], axis[2]))
        zz == RMul(k, RMul(axis[3], axis[3]))
        xy == RMul(k, RMul(axis[1], axis[2]))
        xz == RMul(k, RMul(axis[1], axis[3]))
        yz == RMul(k, RMul(axis[2], axis[3]))
        wx == RMul(a.sin, axis[1])
        wy == RMul(a.sin, axis[2])
        wz == RMul(a.sin, axis[3])
    IN  << <<RSub(One, RAdd(yy, zz)), RSub(xy, wz), RAdd(xz, wy)>>,
           <<RAdd(xy, wz), RSub(One, RAdd(xx, zz)), RSub(yz, wx)>>,
           <<RSub(xz, wy), RAdd(yz, wx), RSub(One, RAdd(xx, yy))>> >>

(* glm::mat3 * glm::vec3 *)
MatVec(m, v) == <<Dot(m[1], v), Dot(m[2], v), Dot(m[3], v)>>

-----------------------------------------------------------------------------
(* TurtleBase.  A turtle t is [currentState, turtleStack]. *)

(* TurtleState's member initializers. *)
InitialState ==
    [position   |-> IVec3(0, 0, 0),
     forward    |-> IVec3(0, 1, 0),
     left       |-> IVec3(0, 0, 1),
     up         |-> IVec3(1, 0, 0),
     brushWidth |-> One]

move(t, distance) ==
    [t EXCEPT !.currentState.position =
        VAdd(@, Scale(distance, Normalize(t.currentState.forward)))]

rotate_stale_up(t, unit_axis, angle_radians) ==
    LET rotationMatrix == RotationMatrix(angle_radians, unit_axis)
        newForward == MatVec(rotationMatrix, t.currentState.forward)
        newLeft == MatVec(rotationMatrix, t.currentState.left)
    IN  [t EXCEPT !.currentState.forward = Normalize(newForward),
                  !.currentState.left = Normalize(newLeft)]

rotate(t, unit_axis, angle_radians) ==
    LET rotationMatrix == RotationMatrix(angle_radians, unit_axis)
        newForward == MatVec(rotationMatrix, t.currentState.forward)
        rotLeft == MatVec(rotationMatrix, t.currentState.left)
        newUp == Cross(newForward, rotLeft)
        newLeft == Cross(newUp, newForward)
    IN  [t EXCEPT !.currentState.forward = Normalize(newForward),
                  !.currentState.left = Normalize(newLeft),
                  !.currentState.up = Normalize(newUp)]

set_brush_width_nonnegative(t, width) ==
    IF width[1] >= 0 THEN [t EXCEPT !.currentState.brushWidth = width] ELSE t

set_brush_width(t, width) ==
    IF RPos(width) THEN [t EXCEPT !.currentState.brushWidth = width] ELSE t

push(t) == [t EXCEPT !.turtleStack = Append(@, t.currentState)]

pop_keeps_width(t) ==
    IF t.turtleStack # <<>>
    THEN LET lastState == t.turtleStack[Len(t.turtleStack)]
         IN  [t EXCEPT !.turtleStack = SubSeq(@, 1, Len(@) - 1),
                       !.currentState.position = lastState.position,
                       !.currentState.forward = lastState.forward,
                       !.currentState.left = lastState.left,
                       !.currentState.up = lastState.up]
    ELSE t

(* std::stack::top on an empty stack is undefined: here it yields a        *)
(* default-constructed state.                                              *)
pop_unguarded(t) ==
    LET lastState == IF t.turtleStack # <<>>
                     THEN t.turtleStack[Len(t.turtleStack)]
                     ELSE InitialState
    IN  [t EXCEPT !.turtleStack = SubSeq(@, 1, Len(@) - 1),
                  !.currentState.position = lastState.position,
                  !.currentState.forward = lastState.forward,
                  !.currentState.left = lastState.left,
                  !.currentState.up = lastState.up,
                  !.currentState.brushWidth = lastState.brushWidth]

(* pop on a queue: the oldest snapshot comes back *)
pop_oldest(t) ==
    IF t.turtleStack # <<>>
    THEN LET lastState == t.turtleStack[1]
         IN  [t EXCEPT !.turtleStack = SubSeq(@, 2, Len(@)),
                       !.currentState.position = lastState.position,
                       !.currentState.forward = lastState.forward,
                       !.currentState.left = lastState.left,
                       !.currentState.up = lastState.up,
                       !.currentState.brushWidth = lastState.brushWidth]
    ELSE t

pop(t) ==
    IF t.turtleStack # <<>>
    THEN LET lastState == t.turtleStack[Len(t.turtleStack)]
         IN  [t EXCEPT !.turtleStack = SubSeq(@, 1, Len(@) - 1),
                       !.currentState.position = lastState.position,
                       !.currentState.forward = lastState.forward,
                       !.currentState.left = lastState.left,
                       !.currentState.up = lastState.up,
                       !.currentState.brushWidth = lastState.brushWidth]
    ELSE t

-----------------------------------------------------------------------------
(* LTurtle.  The interpreter's world w is the turtle together with the two *)
(* collections: [currentState, turtleStack, branches, leaves].  The        *)
(* TurtleBase operations above apply to it and leave the collections alone.*)

position(w) == w.currentState.position
forward(w) == w.currentState.forward
left(w) == w.currentState.left
up(w) == w.currentState.up
brush_width(w) == w.currentState.brushWidth

EmitLeafFront(w, k) ==
    [w EXCEPT !.leaves =
        <<[position |-> position(w), forward |-> forward(w), left |-> left(w),
           size |-> <<RMul(k.leaf_size, brush_width(w)),
                      RMul(RMul(k.leaf_size, brush_width(w)), Int2Rat(2))>>]>> \o @]

EmitLeafUnscaled(w, k) ==
    [w EXCEPT !.leaves = Append(@,
        [position |-> position(w), forward |-> forward(w), left |-> left(w),
         size |-> <<k.leaf_size, RMul(k.leaf_size, Int2Rat(2))>>])]

(* leaves.push_back( Leaf( position, forward, left, size ) ) *)
EmitLeaf(w, k) ==
    [w EXCEPT !.leaves = Append(@,
        [position |-> position(w), forward |-> forward(w), left |-> left(w),
         size |-> <<RMul(k.leaf_size, brush_width(w)),
                    RMul(RMul(k.leaf_size, brush_width(w)), Int2Rat(2))>>])]

EmitBranchNoDecay(w, k) ==
    [w EXCEPT !.branches = Append(@,
        [start |-> position(w),
         startRadius |-> RMul(k.radius, brush_width(w)),
         end |-> VAdd(position(w),
                      Scale(RMul(k.distance, brush_width(w)), forward(w))),
         endRadius |-> RMul(k.radius, brush_width(w))])]

(* branches.push_back( Branch( start, startRadius, end, endRadius ) ) *)
EmitBranch(w, k) ==
    [w EXCEPT !.branches = Append(@,
        [start |-> position(w),
         startRadius |-> RMul(k.radius, brush_width(w)),
         end |-> VAdd(position(w),
                      Scale(RMul(k.distance, brush_width(w)), forward(w))),
         endRadius |-> RMul(RMul(k.brush_decay_coef, k.radius), brush_width(w))])]

WorldY == IVec3(0, 1, 0)

discardMoves(w, k, symbol) == move(w, RMul(k.distance, brush_width(w)))

(* default: break; *)
discard(w, k, symbol) == w

(* process with the break of case 'M' missing *)
processFallThrough(w, k, symbol) ==
    CASE symbol = "L" -> move(EmitLeaf(w, k), RMul(k.distance, brush_width(w)))
      [] symbol = "l" -> move(EmitLeaf(w, k), RMul(k.distance, brush_width(w)))
      [] symbol = "B" -> move(EmitBranch(w, k), RMul(k.distance, brush_width(w)))
      [] symbol = "M" -> rotate(move(w, RMul(k.distance, brush_width(w))),
                                WorldY, k.angle_world_y)
      [] symbol = "+" -> rotate(w, WorldY, k.angle_world_y)
      [] symbol = "-" -> rotate(w, WorldY, NegAngle(k.angle_world_y))
      [] symbol = "&" -> rotate(w, Normalize(left(w)), k.angle_turtle_left)
      [] symbol = "^" -> rotate(w, Normalize(left(w)), NegAngle(k.angle_turtle_left))
      [] symbol = "*" -> set_brush_width(w, RMul(k.brush_decay_coef, brush_width(w)))
      [] symbol = "[" -> push(w)
      [] symbol = "]" -> pop(w)
      [] OTHER -> discard(w, k, symbol)

(* LTurtle::process, with the config k *)
process(w, k, symbol) ==
    CASE symbol = "L" -> move(EmitLeaf(w, k), RMul(k.distance, brush_width(w)))
      [] symbol = "l" -> move(EmitLeaf(w, k), RMul(k.distance, brush_width(w)))
      [] symbol = "B" -> move(EmitBranch(w, k), RMul(k.distance, brush_width(w)))
      [] symbol = "M" -> move(w, RMul(k.distance, brush_width(w)))
      [] symbol = "+" -> rotate(w, WorldY, k.angle_world_y)
      [] symbol = "-" -> rotate(w, WorldY, NegAngle(k.angle_world_y))
      [] symbol = "&" -> rotate(w, Normalize(left(w)), k.angle_turtle_left)
      [] symbol = "^" -> rotate(w, Normalize(left(w)), NegAngle(k.angle_turtle_left))
      [] symbol = "*" -> set_brush_width(w, RMul(k.brush_decay_coef, brush_width(w)))
      [] symbol = "[" -> push(w)
      [] symbol = "]" -> pop(w)
      [] OTHER -> discard(w, k, symbol)

(* rules.find(c) != rules.end() *)
HasRule(r, c) == c \in DOMAIN r

ExpandingOffByOne(k, depth) == depth <= k.max_depth

(* depth < config().max_depth *)
Expanding(k, depth) == depth < k.max_depth

(* A call of run: its sentence, the index of the next symbol of the loop,  *)
(* and its depth.                                                          *)
Frame(sentence, depth) == [sentence |-> sentence, i |-> 1, depth |-> depth]

CalleeSameDepth(r, c, depth) == Frame(r[c], depth)

(* run( foundRule->second, depth + 1 ) *)
Callee(r, c, depth) == Frame(r[c], depth + 1)

-----------------------------------------------------------------------------
(* The inputs of the model. *)

(* The command symbols of process, an unknown symbol Q, and a symbol A     *)
(* that only rules know.                                                   *)
Commands == {"L", "l", "B", "M", "+", "-", "&", "^", "*", "[", "]"}
Symbols == Commands \cup {"Q", "A"}

NumericConfigs ==
    { [radius |-> Rat(1, 2), distance |-> One, leaf_size |-> One,
       angle_world_y |-> QuarterTurn, angle_turtle_left |-> QuarterTurn,
       brush_decay_coef |-> Rat(9, 10)],
      [radius |-> Rat(1, 2), distance |-> One, leaf_size |-> Int2Rat(2),
       angle_world_y |-> Angle345, angle_turtle_left |-> QuarterTurn,
       brush_decay_coef |-> Rat(1, 2)],
      [radius |-> Rat(1, 2), distance |-> One, leaf_size |-> One,
       angle_world_y |-> QuarterTurn, angle_turtle_left |-> Angle345,
       brush_decay_coef |-> Rat(-1, 2)] }

WithDepth(n, d) ==
    [radius |-> n.radius, distance |-> n.distance, leaf_size |-> n.leaf_size,
     angle_world_y |-> n.angle_world_y, angle_turtle_left |-> n.angle_turtle_left,
     brush_decay_coef |-> n.brush_decay_coef, max_depth |-> d]

RunConfigs == { WithDepth(n, d) : n \in NumericConfigs, d \in 0..MaxDepth }

NoRules == << >>

RuleTables ==
    { NoRules,
      "A" :> <<"A", "A">>,
      ("A" :> <<"B">>) @@ ("B" :> <<"A">>),
      "L" :> <<"L", "L">>,
      "l" :> <<"l", "l">>,
      "A" :> <<"B", "[", "&", "*", "A", "]", "A">>,
      "B" :> <<"M", "[", "&", "B", "]">>,
      ("]" :> << >>) @@ ("A" :> <<"[", "A">>) @@ ("Q" :> <<"B">>) }

Axioms ==
    { << >>, <<"A">>, <<"L">>, <<"l">>, <<"B">>, <<"Q", "B", "Q">>,
      <<"B", "+", "B">>, <<"*", "L">>, <<"M", "[", "^", "+", "A", "]", "B">>,
      <<"]", "A", "[", "*", "-", "l">> }

(* The sentences of the runs that follow the first on the same instance. *)
FollowUps ==
    { <<"Q", "B", "Q">>, <<"*", "L">> }

-----------------------------------------------------------------------------
(* The state machine. *)

Op(name, arg) == [op |-> name, arg |-> arg]

World ==
    [currentState |-> currentState, turtleStack |-> turtleStack,
     branches |-> branches, leaves |-> leaves]

SetWorld(w) ==
    /\ currentState' = w.currentState
    /\ turtleStack' = w.turtleStack
    /\ branches' = w.branches
    /\ leaves' = w.leaves

Top == callStack[Len(callStack)]
Running == callStack # << >>
AtSymbol == Running /\ Top.i <= Len(Top.sentence)
Advance(stack) == [stack EXCEPT ![Len(stack)].i = @ + 1]

(* LTurtle's constructor: TurtleBase(), cfg, rules, the two collections.   *)
Construct(k, r) ==
    /\ cfg = k
    /\ rules = r
    /\ currentState = InitialState
    /\ turtleStack = << >>
    /\ branches = << >>
    /\ leaves = << >>
    /\ callStack = << >>
    /\ axiom = << >>
    /\ trace = << >>
    /\ lastOp = Op("construct", << >>)
    /\ prev = [currentState |-> InitialState, turtleStack |-> << >>,
               branches |-> << >>, leaves |-> << >>]
    /\ atStart = prev
    /\ steps = 0
    /\ calls = 0
    /\ sentences = << >>

Init == \E k \in RunConfigs, r \in RuleTables : Construct(k, r)

(* a run that starts from a fresh turtle and an empty stack *)
StartRunResets(sentence) ==
    /\ ~Running
    /\ calls < MaxRuns
    /\ calls > 0 => sentence \in FollowUps
    /\ callStack' = <<Frame(sentence, 0)>>
    /\ axiom' = sentence
    /\ trace' = << >>
    /\ lastOp' = Op("start", sentence)
    /\ prev' = World
    /\ currentState' = InitialState
    /\ turtleStack' = << >>
    /\ atStart' = [World EXCEPT !.currentState = InitialState,
                                !.turtleStack = << >>]
    /\ steps' = 0
    /\ calls' = calls + 1
    /\ sentences' = Append(sentences, sentence)
    /\ UNCHANGED <<cfg, rules, branches, leaves>>

(* The caller calls run(sentence, 0). *)
StartRun(sentence) ==
    /\ ~Running
    /\ calls < MaxRuns
    /\ calls > 0 => sentence \in FollowUps
    /\ callStack' = <<Frame(sentence, 0)>>
    /\ axiom' = sentence
    /\ trace' = << >>
    /\ lastOp' = Op("start", sentence)
    /\ prev' = World
    /\ atStart' = World
    /\ steps' = 0
    /\ calls' = calls + 1
    /\ sentences' = Append(sentences, sentence)
    /\ UNCHANGED <<cfg, rules, currentState, turtleStack, branches, leaves>>

(* One iteration of a loop of run that calls process(c). *)
Interpret ==
    LET c == Top.sentence[Top.i] IN
    /\ SetWorld(process(World, cfg, c))
    /\ callStack' = Advance(callStack)
    /\ trace' = Append(trace, [symbol |-> c,
                                before |-> [currentState |-> currentState,
                                            turtleStack |-> turtleStack]])
    /\ lastOp' = Op("process", c)
    /\ prev' = World
    /\ steps' = steps + 1
    /\ UNCHANGED <<cfg, rules, axiom, atStart, calls, sentences>>

(* depth < max_depth, no rule for c: process(c). *)
RunTerminal ==
    /\ AtSymbol
    /\ Expanding(cfg, Top.depth)
    /\ ~HasRule(rules, Top.sentence[Top.i])
    /\ Interpret

(* an expansion that narrows the brush at every recursion level *)
RunExpandDecays ==
    /\ AtSymbol
    /\ Expanding(cfg, Top.depth)
    /\ HasRule(rules, Top.sentence[Top.i])
    /\ callStack' = Append(Advance(callStack),
                           Callee(rules, Top.sentence[Top.i], Top.depth))
    /\ currentState' = set_brush_width(World,
                           RMul(cfg.brush_decay_coef, currentState.brushWidth)).currentState
    /\ lastOp' = Op("run", rules[Top.sentence[Top.i]])
    /\ prev' = World
    /\ steps' = steps + 1
    /\ UNCHANGED <<cfg, rules, turtleStack, branches, leaves,
                   axiom, trace, atStart, calls, sentences>>

(* depth < max_depth, a rule for c: run(foundRule->second, depth + 1). *)
RunExpand ==
    /\ AtSymbol
    /\ Expanding(cfg, Top.depth)
    /\ HasRule(rules, Top.sentence[Top.i])
    /\ callStack' = Append(Advance(callStack),
                           Callee(rules, Top.sentence[Top.i], Top.depth))
    /\ lastOp' = Op("run", rules[Top.sentence[Top.i]])
    /\ prev' = World
    /\ steps' = steps + 1
    /\ UNCHANGED <<cfg, rules, currentState, turtleStack, branches, leaves,
                   axiom, trace, atStart, calls, sentences>>

(* a ceiling loop that stops after its first symbol *)
RunCeilingFirstOnly ==
    /\ AtSymbol
    /\ ~Expanding(cfg, Top.depth)
    /\ SetWorld(process(World, cfg, Top.sentence[Top.i]))
    /\ callStack' = [callStack EXCEPT ![Len(callStack)].i = Len(Top.sentence) + 1]
    /\ trace' = Append(trace, [symbol |-> Top.sentence[Top.i],
                                before |-> [currentState |-> currentState,
                                            turtleStack |-> turtleStack]])
    /\ lastOp' = Op("process", Top.sentence[Top.i])
    /\ prev' = World
    /\ steps' = steps + 1
    /\ UNCHANGED <<cfg, rules, axiom, atStart, calls, sentences>>

(* depth >= max_depth: process(c) for every c. *)
RunCeiling ==
    /\ AtSymbol
    /\ ~Expanding(cfg, Top.depth)
    /\ Interpret

(* The loop of a call is over: the call returns. *)
RunReturn ==
    /\ Running
    /\ Top.i > Len(Top.sentence)
    /\ callStack' = SubSeq(callStack, 1, Len(callStack) - 1)
    /\ lastOp' = Op("return", << >>)
    /\ prev' = World
    /\ steps' = steps + 1
    /\ UNCHANGED <<cfg, rules, currentState, turtleStack, branches, leaves,
                   axiom, trace, atStart, calls, sentences>>

Next ==
    \/ \E sentence \in Axioms : StartRun(sentence)
    \/ RunTerminal
    \/ RunExpand
    \/ RunCeiling
    \/ RunReturn

Spec == Init /\ [][Next]_vars

-----------------------------------------------------------------------------
(* The caller drives the turtle through its public methods, one call at a  *)
(* time: process of LTurtle, and move, rotate, set_brush_width, push and   *)
(* pop of TurtleBase.                                                      *)

ApiConfigs ==
    { [radius |-> Rat(1, 2), distance |-> One, leaf_size |-> Int2Rat(2),
       angle_world_y |-> QuarterTurn, angle_turtle_left |-> Angle345,
       brush_decay_coef |-> d, max_depth |-> 0] :
      d \in {Rat(1, 2), Zero, Int2Rat(-1)} }

Widths == {Int2Rat(2), Zero, Int2Rat(-1)}
Distances == {One, Rat(-1, 2)}
Oblique == Vec3(Rat(3, 5), Rat(4, 5), Zero)
Rotations ==
    { <<IVec3(1, 0, 0), QuarterTurn>>, <<IVec3(1, 0, 0), NegAngle(Angle345)>>,
      <<IVec3(0, 0, 1), Angle345>>, <<Oblique, QuarterTurn>> }

(* The largest denominator of the coordinates of the frame. *)
Max2(a, b) == IF a >= b THEN a ELSE b
VecDen(v) == Max2(v[1][2], Max2(v[2][2], v[3][2]))
FrameDen(st) == Max2(VecDen(st.forward), Max2(VecDen(st.left), VecDen(st.up)))

ApiInit == \E k \in ApiConfigs : Construct(k, NoRules)

Call(name, arg, w) ==
    /\ ~Running
    /\ calls < MaxCalls
    /\ SetWorld(w)
    /\ lastOp' = Op(name, arg)
    /\ prev' = World
    /\ calls' = calls + 1
    /\ UNCHANGED <<cfg, rules, callStack, axiom, trace, atStart, steps,
                   sentences>>

CallProcess(symbol) == Call("process", symbol, process(World, cfg, symbol))

CallMove(distance) == Call("move", distance, move(World, distance))

(* The oblique axis is used only while the frame's denominators are small, *)
(* which keeps the arithmetic within the integers of the model checker.    *)
CallRotate(unit_axis, angle_radians) ==
    /\ unit_axis = Oblique => FrameDen(currentState) <= DenBound
    /\ Call("rotate", <<unit_axis, angle_radians>>,
            rotate(World, unit_axis, angle_radians))

CallSetBrushWidth(width) ==
    Call("set_brush_width", width, set_brush_width(World, width))

CallPush == Call("push", << >>, push(World))

CallPop == Call("pop", << >>, pop(World))

ApiNext ==
    \/ \E symbol \in Symbols : CallProcess(symbol)
    \/ \E distance \in Distances : CallMove(distance)
    \/ \E r \in Rotations : CallRotate(r[1], r[2])
    \/ \E width \in Widths : CallSetBrushWidth(width)
    \/ CallPush
    \/ CallPop

ApiSpec == ApiInit /\ [][ApiNext]_vars

-----------------------------------------------------------------------------
(* Rewriting, stated without the interpreter. *)

RECURSIVE Concat(_)
Concat(ss) == IF ss = << >> THEN << >> ELSE Head(ss) \o Concat(Tail(ss))

(* The left-to-right depth-first yield of the rewriting tree of a sentence *)
(* at a depth, every symbol being terminal at depth maxDepth.              *)
RECURSIVE Yield(_, _, _, _)
Yield(r, maxDepth, sentence, depth) ==
    Concat([j \in 1..Len(sentence) |->
        IF depth < maxDepth /\ sentence[j] \in DOMAIN r
        THEN Yield(r, maxDepth, r[sentence[j]], depth + 1)
        ELSE <<sentence[j]>>])

(* One parallel rewriting pass over a sentence, and n of them. *)
FlatPass(r, sentence) ==
    Concat([j \in 1..Len(sentence) |->
        IF sentence[j] \in DOMAIN r THEN r[sentence[j]] ELSE <<sentence[j]>>])

RECURSIVE FlatExpand(_, _, _)
FlatExpand(r, sentence, n) ==
    IF n = 0 THEN sentence ELSE FlatExpand(r, FlatPass(r, sentence), n - 1)

IsPrefix(s, t) == Len(s) <= Len(t) /\ SubSeq(t, 1, Len(s)) = s

TraceSymbols == [j \in 1..Len(trace) |-> trace[j].symbol]

(* A run(axiom, 0) has been called and has returned. *)
RunDone == ~Running /\ lastOp.op = "return"

-----------------------------------------------------------------------------
(* C1.  The symbols a run(axiom, 0) passes to process are, in order, the   *)
(* left-to-right depth-first yield of the rewriting tree truncated at      *)
(* max_depth: a prefix of it while the run is under way, all of it when    *)
(* the run has returned.  That yield is the very sequence that max_depth   *)
(* parallel rewriting passes over the axiom, followed by one               *)
(* interpretation pass, give.                                              *)
C1_YieldOrder ==
    /\ IsPrefix(TraceSymbols, Yield(rules, cfg.max_depth, axiom, 0))
    /\ RunDone =>
        /\ TraceSymbols = Yield(rules, cfg.max_depth, axiom, 0)
        /\ TraceSymbols = FlatExpand(rules, axiom, cfg.max_depth)

(* A run that went two levels deep, interpreted a symbol without a rule    *)
(* before expanding a later sibling, and interpreted a symbol with a rule  *)
(* at the ceiling.                                                         *)
C1_Interleaved ==
    /\ cfg.max_depth >= 2
    /\ \E j \in 1..Len(axiom) : \E i \in 1..(j - 1) :
          HasRule(rules, axiom[j]) /\ ~HasRule(rules, axiom[i])
    /\ \E j \in 1..Len(trace) : HasRule(rules, trace[j].symbol)

C1_Witness == RunDone /\ C1_Interleaved

(* C1 as first stated: the interpreted sequence is the depth-first yield   *)
(* and is not the sequence of a flat expand-fully-then-interpret pass.     *)
C1_NotFlat ==
    (RunDone /\ C1_Interleaved) =>
        /\ TraceSymbols = Yield(rules, cfg.max_depth, axiom, 0)
        /\ TraceSymbols # FlatExpand(rules, axiom, cfg.max_depth)

-----------------------------------------------------------------------------
(* C2.  Every run(axiom, 0) returns, whatever the rules (cyclic and        *)
(* self-referential ones included): while a run is active it has a step to *)
(* take, and the steps it has taken and Rank, the number of steps the      *)
(* rewriting tree still asks for, add up to the finite number of steps of  *)
(* the whole tree, so every step lowers Rank by one and the run returns    *)
(* when Rank is 0; and at no time are more than max_depth + 1 calls of run *)
(* active.                                                                 *)
RECURSIVE SumSeq(_)
SumSeq(ns) == IF ns = << >> THEN 0 ELSE Head(ns) + SumSeq(Tail(ns))

(* The steps a call of run on a sentence at a depth takes before it        *)
(* returns: one per interpreted symbol; for a rewritten symbol the call,   *)
(* the steps of the callee and its return.                                 *)
RECURSIVE Work(_, _, _, _)
Work(r, maxDepth, sentence, depth) ==
    SumSeq([j \in 1..Len(sentence) |->
        IF depth < maxDepth /\ sentence[j] \in DOMAIN r
        THEN 2 + Work(r, maxDepth, r[sentence[j]], depth + 1)
        ELSE 1])

Rank ==
    SumSeq([j \in 1..Len(callStack) |->
        1 + Work(rules, cfg.max_depth,
                 SubSeq(callStack[j].sentence, callStack[j].i,
                        Len(callStack[j].sentence)),
                 callStack[j].depth)])

RunStarted == lastOp.op # "construct"

C2_Terminates ==
    /\ Len(callStack) <= cfg.max_depth + 1
    /\ Running => (Top.i >= 1 /\ Top.i <= Len(Top.sentence) + 1)
    /\ Rank = 0 <=> ~Running
    /\ RunStarted => steps + Rank = 1 + Work(rules, cfg.max_depth, axiom, 0)

SelfReferential(r) ==
    \E c \in DOMAIN r : \E j \in 1..Len(r[c]) :
        r[c][j] = c \/ (r[c][j] \in DOMAIN r /\ \E i \in 1..Len(r[r[c][j]]) : r[r[c][j]][i] = c)

(* A run under cyclic rules that went to the deepest level has returned.   *)
C2_Witness ==
    /\ RunDone
    /\ SelfReferential(rules)
    /\ cfg.max_depth = MaxDepth
    /\ \E j \in 1..Len(axiom) : HasRule(rules, axiom[j])
    /\ Len(trace) >= 2

-----------------------------------------------------------------------------
(* C3.  The j-th active call of run has depth j - 1, so a call is one      *)
(* deeper than its caller, and no depth exceeds max_depth; a call at depth *)
(* >= max_depth has applied no rule: the symbols it has consumed, those    *)
(* with a rule included, are the last symbols passed to process; with      *)
(* max_depth = 0 that is the axiom itself.                                 *)
C3_DepthDiscipline ==
    /\ \A j \in 1..Len(callStack) :
          /\ callStack[j].depth = j - 1
          /\ callStack[j].depth <= cfg.max_depth
    /\ (Running /\ Top.depth >= cfg.max_depth) =>
          /\ Len(trace) >= Top.i - 1
          /\ SubSeq(TraceSymbols, Len(trace) - (Top.i - 1) + 1, Len(trace))
                = SubSeq(Top.sentence, 1, Top.i - 1)
    /\ lastOp.op = "run" => Len(callStack) >= 2 /\ Top.depth <= cfg.max_depth
    /\ (RunDone /\ cfg.max_depth = 0) => TraceSymbols = axiom

(* A call at the ceiling, two levels down, has passed a symbol that has a  *)
(* rule to process.                                                        *)
C3_Witness ==
    /\ Running
    /\ Top.depth = cfg.max_depth
    /\ cfg.max_depth >= 2
    /\ Top.i > 1
    /\ HasRule(rules, Top.sentence[Top.i - 1])
    /\ lastOp.op = "process"
    /\ lastOp.arg = Top.sentence[Top.i - 1]

-----------------------------------------------------------------------------
(* C4.  When a run interprets a ']' that closes a '[' interpreted earlier, *)
(* the symbols between them being bracket-balanced, the turtle (position,  *)
(* forward, left, up, brush width) and its stack are what they were just   *)
(* before that '[': the commands that follow act on the state they would   *)
(* act on without the bracketed group.                                     *)
RECURSIVE Nesting(_)
Nesting(s) ==
    IF s = << >> THEN 0
    ELSE Nesting(SubSeq(s, 1, Len(s) - 1))
         + (IF s[Len(s)] = "[" THEN 1 ELSE IF s[Len(s)] = "]" THEN -1 ELSE 0)

Balanced(s) ==
    /\ Nesting(s) = 0
    /\ \A n \in 1..Len(s) : Nesting(SubSeq(s, 1, n)) >= 0

(* The last symbol interpreted is a ']' closing the '[' that is trace[j]. *)
Closes(j) ==
    /\ trace[j].symbol = "["
    /\ trace[Len(trace)].symbol = "]"
    /\ j < Len(trace)
    /\ Balanced(SubSeq(TraceSymbols, j + 1, Len(trace) - 1))

C4_RoundTrip ==
    \A j \in 1..Len(trace) :
        Closes(j) =>
            /\ currentState = trace[j].before.currentState
            /\ turtleStack = trace[j].before.turtleStack

(* A group that holds a nested group, moves, turns and narrows the brush   *)
(* has just been closed.                                                   *)
C4_Witness ==
    \E j \in 1..Len(trace) :
        /\ Closes(j)
        /\ lastOp.op = "process"
        /\ \E a, b, c \in (j + 1)..(Len(trace) - 1) :
              /\ trace[a].symbol = "["
              /\ trace[b].symbol = "*"
              /\ trace[b].before.currentState.brushWidth # currentState.brushWidth
              /\ trace[c].symbol = "B"
        /\ trace[j].before.turtleStack # << >>

-----------------------------------------------------------------------------
(* C5.  A pop, or the ']' command, on an empty stack leaves the position,  *)
(* the orientation, the brush width, the stack and both collections as     *)
(* they were.                                                              *)
PopCalled ==
    lastOp.op = "pop" \/ (lastOp.op = "process" /\ lastOp.arg = "]")

C5_EmptyPop ==
    (PopCalled /\ prev.turtleStack = << >>) => World = prev

C5_Witness ==
    /\ PopCalled
    /\ prev.turtleStack = << >>
    /\ currentState.position # InitialState.position
    /\ currentState.brushWidth # InitialState.brushWidth

-----------------------------------------------------------------------------
(* C6.  The brush width of the current state and of every saved state is   *)
(* positive, whatever the commands, the widths passed to set_brush_width   *)
(* and the sign of the decay coefficient; a set_brush_width with a width   *)
(* <= 0 changes nothing.                                                   *)
C6_WidthPositive ==
    /\ RPos(currentState.brushWidth)
    /\ \A j \in 1..Len(turtleStack) : RPos(turtleStack[j].brushWidth)
    /\ (lastOp.op = "set_brush_width" /\ ~RPos(lastOp.arg)) => World = prev
    /\ (lastOp.op = "set_brush_width" /\ RPos(lastOp.arg)) =>
            currentState.brushWidth = lastOp.arg

(* set_brush_width(0) has been refused on a brush that had been changed    *)
(* before, with a saved state on the stack.                                *)
C6_Witness ==
    /\ lastOp.op = "set_brush_width"
    /\ lastOp.arg = Zero
    /\ currentState.brushWidth # One
    /\ turtleStack # << >>

-----------------------------------------------------------------------------
(* C7.  forward, left and up are unit vectors, orthogonal to each other,   *)
(* and up = forward x left: in the initial state, after every rotate about *)
(* a unit axis, after the commands + - & ^ and after every pop (and so in  *)
(* every saved state).                                                     *)
Orthonormal(st) ==
    /\ Dot(st.forward, st.forward) = One
    /\ Dot(st.left, st.left) = One
    /\ Dot(st.up, st.up) = One
    /\ Dot(st.forward, st.left) = Zero
    /\ Dot(st.forward, st.up) = Zero
    /\ Dot(st.left, st.up) = Zero
    /\ st.up = Cross(st.forward, st.left)

C7_Orthonormal ==
    /\ Orthonormal(currentState)
    /\ \A j \in 1..Len(turtleStack) : Orthonormal(turtleStack[j])

(* A rotation has produced a frame of which no coordinate is an integer.   *)
C7_Witness ==
    /\ lastOp.op \in {"rotate", "process"}
    /\ prev.currentState.forward # currentState.forward
    /\ prev.currentState.forward # InitialState.forward
    /\ \A n \in 1..3 : currentState.forward[n][2] > 1 /\ currentState.up[n][2] > 1

-----------------------------------------------------------------------------
(* C8.  Every step leaves each collection as it was or longer by one       *)
(* record added at its end; ']' restores the turtle and removes no record; *)
(* the records a run has added are, in order, those of the leaf and branch *)
(* symbols it has interpreted, each anchored where the turtle then was.    *)
Extends(new, old) ==
    \/ new = old
    \/ Len(new) = Len(old) + 1 /\ SubSeq(new, 1, Len(old)) = old

TraceIndices(symbols) ==
    SelectSeq([j \in 1..Len(trace) |-> j], LAMBDA j : trace[j].symbol \in symbols)

InEmissionOrder(records, before, symbols, anchor(_)) ==
    LET at == TraceIndices(symbols)
    IN  /\ Len(records) = Len(before) + Len(at)
        /\ SubSeq(records, 1, Len(before)) = before
        /\ \A n \in 1..Len(at) :
              anchor(records[Len(before) + n]) = trace[at[n]].before.currentState.position

C8_AppendOnly ==
    /\ Extends(branches, prev.branches)
    /\ Extends(leaves, prev.leaves)
    /\ (lastOp.op = "process" /\ lastOp.arg = "]") =>
            branches = prev.branches /\ leaves = prev.leaves
    /\ InEmissionOrder(leaves, atStart.leaves, {"L", "l"}, LAMBDA r : r.position)
    /\ InEmissionOrder(branches, atStart.branches, {"B"}, LAMBDA r : r.start)

(* A ']' has moved the turtle back after a branch was emitted inside the   *)
(* group, in a run that found records of an earlier run in place.          *)
C8_Witness ==
    /\ lastOp.op = "process"
    /\ lastOp.arg = "]"
    /\ Len(trace) >= 2
    /\ trace[Len(trace) - 1].symbol = "B"
    /\ currentState.position # prev.currentState.position
    /\ Len(branches) > Len(atStart.branches)
    /\ atStart.leaves # << >>

-----------------------------------------------------------------------------
(* C9.  process of a symbol outside the command table changes nothing, and *)
(* neither does a run on an empty sentence, nor the call and return steps  *)
(* of run; so a run ends in the world (turtle, stack, both collections)    *)
(* that interpreting the yield of its axiom without the unknown symbols    *)
(* that have no rule gives: "QBQ" ends as "B" does.                        *)
RECURSIVE Exec(_, _, _)
Exec(w, k, s) ==
    IF s = << >> THEN w ELSE Exec(process(w, k, Head(s)), k, Tail(s))

Strip(r, s) == SelectSeq(s, LAMBDA c : c \in Commands \/ c \in DOMAIN r)

C9_UnknownNoOp ==
    /\ (lastOp.op = "process" /\ lastOp.arg \notin Commands) => World = prev
    /\ lastOp.op \in {"start", "run", "return"} => World = prev
    /\ (RunDone /\ axiom = << >>) => World = atStart
    /\ RunDone =>
          World = Exec(atStart, cfg, Yield(rules, cfg.max_depth, Strip(rules, axiom), 0))

(* The run of "QBQ", Q without a rule, has added one branch, on a turtle   *)
(* that an earlier run had moved.                                          *)
C9_Witness ==
    /\ RunDone
    /\ axiom = <<"Q", "B", "Q">>
    /\ ~HasRule(rules, "Q")
    /\ Len(branches) = Len(atStart.branches) + 1
    /\ atStart.currentState # InitialState
    /\ currentState.position # atStart.currentState.position

-----------------------------------------------------------------------------
(* C10.  With the single rule X -> XX, X one of L and l, the run of "X"    *)
(* interprets 2^max_depth symbols, the size of the truncated yield, adds   *)
(* as many Leaf records and no Branch.                                     *)
RECURSIVE Pow2(_)
Pow2(n) == IF n = 0 THEN 1 ELSE 2 * Pow2(n - 1)

Doubling ==
    /\ axiom \in {<<"L">>, <<"l">>}
    /\ rules = (axiom[1] :> <<axiom[1], axiom[1]>>)

C10_LeafCount ==
    (RunDone /\ Doubling) =>
        /\ Len(trace) = Pow2(cfg.max_depth)
        /\ Len(trace) = Len(Yield(rules, cfg.max_depth, axiom, 0))
        /\ Len(leaves) = Len(atStart.leaves) + Pow2(cfg.max_depth)
        /\ branches = atStart.branches

(* 8 leaves for max_depth 3, on a fresh interpreter. *)
C10_Witness ==
    /\ RunDone
    /\ Doubling
    /\ cfg.max_depth = 3
    /\ Len(leaves) = 8
    /\ branches = << >>

-----------------------------------------------------------------------------
(* C11.  Each interpreted 'B' appends exactly one Branch: it starts at the *)
(* position before the command with radius radius * brushWidth, and ends   *)
(* at position + distance * brushWidth * forward with radius               *)
(* brush_decay_coef * radius * brushWidth; the turtle then stands at the   *)
(* Branch's end, and nothing else of the world changes.  On a fresh        *)
(* interpreter with distance 1, radius 1/2, decay 9/10, max_depth 0 and no *)
(* rules, "B+B" gives two Branches, the first from (0,0,0) to (0,1,0) with *)
(* radii 1/2 and 9/20, the second starting at (0,1,0).                     *)
BranchOf(w) ==
    LET bw == w.currentState.brushWidth
        reach == RMul(cfg.distance, bw)
    IN  [start |-> w.currentState.position,
         startRadius |-> RMul(cfg.radius, bw),
         end |-> <<RAdd(w.currentState.position[1],
                        RMul(reach, w.currentState.forward[1])),
                   RAdd(w.currentState.position[2],
                        RMul(reach, w.currentState.forward[2])),
                   RAdd(w.currentState.position[3],
                        RMul(reach, w.currentState.forward[3]))>>,
         endRadius |-> RMul(cfg.brush_decay_coef, RMul(cfg.radius, bw))]

BPlusB ==
    /\ RunDone
    /\ calls = 1
    /\ axiom = <<"B", "+", "B">>
    /\ rules = NoRules
    /\ cfg.max_depth = 0
    /\ cfg.distance = One
    /\ cfg.radius = Rat(1, 2)
    /\ cfg.brush_decay_coef = Rat(9, 10)

C11_Branch ==
    /\ (lastOp.op = "process" /\ lastOp.arg = "B") =>
          /\ branches = Append(prev.branches, BranchOf(prev))
          /\ currentState.position = branches[Len(branches)].end
          /\ currentState = [prev.currentState EXCEPT
                                !.position = currentState.position]
          /\ turtleStack = prev.turtleStack
          /\ leaves = prev.leaves
    /\ BPlusB =>
          /\ Len(branches) = 2
          /\ branches[1] = [start |-> IVec3(0, 0, 0), startRadius |-> Rat(1, 2),
                            end |-> IVec3(0, 1, 0), endRadius |-> Rat(9, 20)]
          /\ branches[2].start = IVec3(0, 1, 0)

(* The run of "B+B" is over, its second 'B' having moved the turtle to     *)
(* (0,2,0).                                                                *)
C11_Witness ==
    /\ BPlusB
    /\ Len(branches) = 2
    /\ currentState.position = IVec3(0, 2, 0)
    /\ currentState.position = branches[2].end

-----------------------------------------------------------------------------
(* C12.  'L' and 'l' have the same effect: one Leaf is appended, anchored  *)
(* at the position before the command, carrying the current forward and    *)
(* left vectors, of size (leaf_size * brushWidth, 2 * leaf_size *           *)
(* brushWidth); then the turtle moves forward by distance * brushWidth and *)
(* nothing else changes.  On a fresh interpreter with decay 1/2 and        *)
(* leaf_size 2, "*L" gives one Leaf, of size (1, 2).                       *)
LeafOf(w) ==
    LET bw == w.currentState.brushWidth IN
    [position |-> w.currentState.position,
     forward |-> w.currentState.forward,
     left |-> w.currentState.left,
     size |-> <<RMul(cfg.leaf_size, bw),
                RMul(Int2Rat(2), RMul(cfg.leaf_size, bw))>>]

Ahead(w) ==
    LET reach == RMul(cfg.distance, w.currentState.brushWidth) IN
    <<RAdd(w.currentState.position[1], RMul(reach, w.currentState.forward[1])),
      RAdd(w.currentState.position[2], RMul(reach, w.currentState.forward[2])),
      RAdd(w.currentState.position[3], RMul(reach, w.currentState.forward[3]))>>

StarL ==
    /\ RunDone
    /\ calls = 1
    /\ axiom = <<"*", "L">>
    /\ ~HasRule(rules, "L")
    /\ cfg.brush_decay_coef = Rat(1, 2)
    /\ cfg.leaf_size = Int2Rat(2)

C12_Leaf ==
    /\ (lastOp.op = "process" /\ lastOp.arg \in {"L", "l"}) =>
          /\ leaves = Append(prev.leaves, LeafOf(prev))
          /\ currentState = [prev.currentState EXCEPT !.position = Ahead(prev)]
          /\ turtleStack = prev.turtleStack
          /\ branches = prev.branches
          /\ process(prev, cfg, "L") = process(prev, cfg, "l")
    /\ StarL =>
          /\ Len(leaves) = 1
          /\ leaves[1].size = <<One, Int2Rat(2)>>
          /\ leaves[1].position = IVec3(0, 0, 0)

(* The run of "*L" is over: the Leaf was sized with the width 1/2 that the *)
(* '*' had set, and the turtle has moved by 1/2.                           *)
C12_Witness ==
    /\ StarL
    /\ currentState.brushWidth = Rat(1, 2)
    /\ currentState.position = <<Zero, Rat(1, 2), Zero>>
    /\ leaves # << >>

-----------------------------------------------------------------------------
(* C13.  A command changes only what the command table assigns to it:      *)
(* '+', '-', '&', '^' only forward, left and up; 'M' only the position;    *)
(* '*' only the brush width; '[' only the stack; ']' only the turtle and   *)
(* the stack; none of these seven appends a primitive.  'L', 'l' and 'B'   *)
(* change only the position and their own collection, which grows by one   *)
(* record at its end.                                                      *)
Orientation(st) == <<st.forward, st.left, st.up>>
SameCollections == branches = prev.branches /\ leaves = prev.leaves
SameStack == turtleStack = prev.turtleStack
GrewByOne(now, before) ==
    Len(now) = Len(before) + 1 /\ SubSeq(now, 1, Len(before)) = before

C13_Frame ==
    lastOp.op = "process" =>
        LET c == lastOp.arg
            was == prev.currentState
        IN  /\ c \in {"+", "-", "&", "^"} =>
                  /\ currentState.position = was.position
                  /\ currentState.brushWidth = was.brushWidth
                  /\ SameStack /\ SameCollections
            /\ c = "M" =>
                  /\ Orientation(currentState) = Orientation(was)
                  /\ currentState.brushWidth = was.brushWidth
                  /\ SameStack /\ SameCollections
            /\ c = "*" =>
                  /\ currentState.position = was.position
                  /\ Orientation(currentState) = Orientation(was)
                  /\ SameStack /\ SameCollections
            /\ c = "[" => currentState = was /\ SameCollections
            /\ c = "]" => SameCollections
            /\ c \in {"L", "l"} =>
                  /\ Orientation(currentState) = Orientation(was)
                  /\ currentState.brushWidth = was.brushWidth
                  /\ SameStack
                  /\ branches = prev.branches
                  /\ GrewByOne(leaves, prev.leaves)
            /\ c = "B" =>
                  /\ Orientation(currentState) = Orientation(was)
                  /\ currentState.brushWidth = was.brushWidth
                  /\ SameStack
                  /\ leaves = prev.leaves
                  /\ GrewByOne(branches, prev.branches)

(* An 'M' has moved a turtle that had been turned away from the initial    *)
(* frame and that had added a primitive, with a snapshot on the stack.     *)
C13_Witness ==
    /\ lastOp.op = "process"
    /\ lastOp.arg = "M"
    /\ currentState.position # prev.currentState.position
    /\ Orientation(currentState) # Orientation(InitialState)
    /\ (branches # << >> \/ leaves # << >> \/ turtleStack # << >>)

-----------------------------------------------------------------------------
(* C14.  The stack is last-in first-out over full copies of the turtle's   *)
(* state.  A push appends a copy of the five fields as they are and leaves *)
(* the turtle alone; later moves, rotations and width changes do not touch *)
(* the snapshots; a pop on a non-empty stack restores the five fields from *)
(* the most recent snapshot not yet popped and removes it.  The stack size *)
(* is the size at the start of the run plus the pushes minus the pops that *)
(* found the stack non-empty.                                              *)
RECURSIVE Snapshots(_)
Snapshots(j) ==
    IF j = 0 THEN atStart.turtleStack
    ELSE LET below == Snapshots(j - 1) IN
         CASE trace[j].symbol = "[" -> Append(below, trace[j].before.currentState)
           [] trace[j].symbol = "]" /\ below # << >> ->
                  SubSeq(below, 1, Len(below) - 1)
           [] OTHER -> below

Pushes == Cardinality({j \in 1..Len(trace) : trace[j].symbol = "["})
EffectivePops ==
    Cardinality({j \in 1..Len(trace) :
                    trace[j].symbol = "]" /\ trace[j].before.turtleStack # << >>})

C14_Lifo ==
    /\ turtleStack = Snapshots(Len(trace))
    /\ Len(turtleStack) = Len(atStart.turtleStack) + Pushes - EffectivePops
    /\ (lastOp.op = "process" /\ lastOp.arg = "[") =>
          /\ turtleStack = Append(prev.turtleStack, prev.currentState)
          /\ currentState = prev.currentState
    /\ (lastOp.op = "process" /\ lastOp.arg = "]" /\ prev.turtleStack # << >>) =>
          /\ currentState = prev.turtleStack[Len(prev.turtleStack)]
          /\ turtleStack = SubSeq(prev.turtleStack, 1, Len(prev.turtleStack) - 1)
    /\ (lastOp.op = "process" /\ lastOp.arg \notin {"[", "]"}) =>
          turtleStack = prev.turtleStack
    /\ lastOp.op \in {"start", "run", "return"} => turtleStack = prev.turtleStack

(* A ']' has popped the upper of two different snapshots, after an earlier *)
(* pop of the same run, and has set back a turtle that had moved on.       *)
C14_Witness ==
    /\ lastOp.op = "process"
    /\ lastOp.arg = "]"
    /\ Len(prev.turtleStack) >= 2
    /\ prev.turtleStack[1] # prev.turtleStack[2]
    /\ currentState # prev.currentState
    /\ EffectivePops >= 2
    /\ turtleStack # << >>

-----------------------------------------------------------------------------
(* C15.  The brush width is multiplied by brush_decay_coef once per        *)
(* interpreted '*' whose product is positive, and is left as it is by a    *)
(* '*' whose product is not.  Apart from that it changes only when a ']'   *)
(* restores a snapshot: the start of a run, the call of run for a rule and *)
(* its return, and every other command leave it unchanged.  With a         *)
(* positive coefficient and no snapshot restored, the width after k        *)
(* interpreted '*' is the width at the start of the run times              *)
(* brush_decay_coef^k, which is brush_decay_coef^k on a fresh interpreter. *)
RECURSIVE RPow(_, _)
RPow(r, n) == IF n = 0 THEN One ELSE RMul(r, RPow(r, n - 1))

Stars == Cardinality({j \in 1..Len(trace) : trace[j].symbol = "*"})

C15_Width ==
    LET was == prev.currentState.brushWidth
        product == RMul(cfg.brush_decay_coef, was)
    IN  /\ (lastOp.op = "process" /\ lastOp.arg = "*") =>
              currentState.brushWidth = IF RPos(product) THEN product ELSE was
        /\ (lastOp.op = "process" /\ lastOp.arg = "]") =>
              currentState.brushWidth =
                  IF prev.turtleStack # << >>
                  THEN prev.turtleStack[Len(prev.turtleStack)].brushWidth
                  ELSE was
        /\ (lastOp.op = "process" /\ lastOp.arg \notin {"*", "]"}) =>
              currentState.brushWidth = was
        /\ lastOp.op \in {"start", "run", "return"} =>
              currentState.brushWidth = was
        /\ (RPos(cfg.brush_decay_coef) /\ EffectivePops = 0) =>
              currentState.brushWidth =
                  RMul(atStart.currentState.brushWidth,
                       RPow(cfg.brush_decay_coef, Stars))
        /\ (RPos(cfg.brush_decay_coef) /\ EffectivePops = 0 /\ calls = 1) =>
              currentState.brushWidth = RPow(cfg.brush_decay_coef, Stars)

(* The second '*' of a run on a fresh interpreter, interpreted two         *)
(* recursion levels down with nothing popped yet, has narrowed the brush   *)
(* to the square of the coefficient.                                       *)
C15_Witness ==
    /\ lastOp.op = "process"
    /\ lastOp.arg = "*"
    /\ calls = 1
    /\ Len(callStack) >= 3
    /\ Stars = 2
    /\ EffectivePops = 0
    /\ RPos(cfg.brush_decay_coef)
    /\ currentState.brushWidth # prev.currentState.brushWidth
    /\ currentState.brushWidth = RMul(cfg.brush_decay_coef, cfg.brush_decay_coef)

-----------------------------------------------------------------------------
(* C16.  When the axiom and every rule replacement are bracket-balanced    *)
(* and neither '[' nor ']' has a rule, then, whatever max_depth is, a run  *)
(* on a fresh interpreter never pops an empty stack, ends with an empty    *)
(* stack, and ends with the turtle that the run of the axiom without its   *)
(* top-level bracketed groups would leave.                                 *)
BalancedGrammar ==
    /\ Balanced(axiom)
    /\ \A c \in DOMAIN rules : Balanced(rules[c])
    /\ "[" \notin DOMAIN rules
    /\ "]" \notin DOMAIN rules

(* The sentence s without its top-level bracketed groups. *)
RECURSIVE Ungrouped(_)
Ungrouped(s) ==
    IF s = << >> THEN << >>
    ELSE LET n == Len(s)
             front == SubSeq(s, 1, n - 1)
         IN  IF Nesting(s) = 0 /\ s[n] # "]"
             THEN Append(Ungrouped(front), s[n])
             ELSE Ungrouped(front)

C16_Matching ==
    (calls = 1 /\ BalancedGrammar) =>
        /\ \A j \in 1..Len(trace) :
              trace[j].symbol = "]" => trace[j].before.turtleStack # << >>
        /\ RunDone =>
              /\ turtleStack = << >>
              /\ currentState =
                    Exec(atStart, cfg,
                         Yield(rules, cfg.max_depth, Ungrouped(axiom), 0)).currentState

(* The run of "M[^+A]B" with A -> B[&*A]A is over at max_depth 2: groups   *)
(* were cut by the depth ceiling inside the axiom's group, four pops       *)
(* found their snapshots, and the turtle stands where "MB" leaves it.      *)
C16_Witness ==
    /\ RunDone
    /\ calls = 1
    /\ BalancedGrammar
    /\ axiom = <<"M", "[", "^", "+", "A", "]", "B">>
    /\ HasRule(rules, "A")
    /\ "[" \in {rules["A"][n] : n \in 1..Len(rules["A"])}
    /\ cfg.max_depth = 2
    /\ EffectivePops >= 4
    /\ turtleStack = << >>
    /\ currentState.position = IVec3(0, 2, 0)

-----------------------------------------------------------------------------
(* C17.  run does not reset the interpreter.  The start of a run changes   *)
(* neither the turtle, nor the stack, nor the collections, so a run starts *)
(* where the run before it ended and its records are appended to those     *)
(* already there.  A sequence of runs of s1, s2, ... on a fresh            *)
(* interpreter ends in the turtle, stack and collections that one run of   *)
(* the concatenation s1 s2 ... gives.  The snapshots of the '[' that no    *)
(* ']' has matched are on the stack when run has returned.                 *)
FreshWorld ==
    [currentState |-> InitialState, turtleStack |-> << >>,
     branches |-> << >>, leaves |-> << >>]

C17_NoReset ==
    /\ lastOp.op = "start" => (World = prev /\ atStart = prev)
    /\ RunDone =>
          /\ World = Exec(FreshWorld, cfg,
                          Yield(rules, cfg.max_depth, Concat(sentences), 0))
          /\ IsPrefix(atStart.branches, branches)
          /\ IsPrefix(atStart.leaves, leaves)
          /\ Nesting(TraceSymbols) > 0 => turtleStack # << >>

(* The second run is over.  The first, of "]A[*-l", had left a snapshot, a *)
(* narrowed brush and a Leaf; the second began with them, added its own    *)
(* record behind the first run's, and the snapshot is still on the stack.  *)
C17_Witness ==
    /\ RunDone
    /\ calls = 2
    /\ sentences[1] = <<"]", "A", "[", "*", "-", "l">>
    /\ sentences[2] = axiom
    /\ atStart.turtleStack # << >>
    /\ atStart.currentState # InitialState
    /\ atStart.leaves # << >>
    /\ turtleStack # << >>
    /\ Len(leaves) + Len(branches) > Len(atStart.leaves) + Len(atStart.branches)

====
